---- MODULE Spec2Model ----
(***************************************************************************)
(* A model of dumpty's file installer (src/dumpty/installer.py) and of the *)
(* agent adapters it drives (src/dumpty/agents/base.py).                   *)
(*                                                                         *)
(* Paths are sequences of path components relative to the project root     *)
(* (the project root itself is the empty sequence).  The filesystem is the *)
(* pair (files, dirs): the regular files with their content, and the       *)
(* directories.  One call of install_package or uninstall_package runs at  *)
(* a time; a call is split into the steps between which the agent's hooks  *)
(* observe the filesystem: hook, file copy, directory removal.             *)
(*                                                                         *)
(* The installer reads agent.directory and agent._get_impl() from the      *)
(* Agent handle of dumpty.agent_detector; the handle is taken to stand for *)
(* its adapter: its directory is the adapter's, its hooks the adapter's.   *)
(***************************************************************************)
EXTENDS Naturals, Sequences, FiniteSets, TLC

VARIABLES
    target,     \* the target agent of this run's calls
    files,      \* regular files: resolved path -> content
    dirs,       \* directories: set of resolved paths
    pc,         \* position of the running call, "idle" between calls
    call,       \* arguments and locals of the running (or last) call, and
                \* the filesystem it started on
    idx,        \* number of entries of source_files copied so far
    results,    \* install_package's result list so far
    events,     \* what the running (or last) call did, in order
    history,    \* the completed calls, in order
    faults      \* number of injected failures so far

vars == <<target, files, dirs, pc, call, idx, results, events, history, faults>>

\* The agent registry (agents/registry.py) and the threads that use it.
VARIABLES
    instance,   \* AgentRegistry._instance: 0 for None, else a position of heap
    heap,       \* the AgentRegistry objects allocated so far, in order
    thr,        \* per thread: position in its call, the reference it holds
                \* and the locals of the call
    rlog        \* the completed registry calls, in order

regVars == <<instance, heap, thr, rlog>>

\* The update of an installed package, driven by the lockfile.
VARIABLES
    ustate,     \* the state of the update flow
    lock,       \* the version the lockfile records for the package
    utags,      \* the tags fetched from the source
    ureq,       \* the version the caller named, or NoRequest
    utarget,    \* the target version T
    disk,       \* per agent: the version whose files its directory holds
    ulog        \* what the update did, in order

updVars == <<ustate, lock, utags, ureq, utarget, disk, ulog>>

\* No update is run.
UpdateUnused ==
    /\ ustate = "Installed"
    /\ lock = <<>>
    /\ utags = <<>>
    /\ ureq = <<>>
    /\ utarget = <<>>
    /\ disk = <<>>
    /\ ulog = <<>>

\* The agent adapters: the Copilot settings file and the class-level
\* queries.
VARIABLES
    settings,   \* what .vscode/settings.json is
    slog,       \* the completed hook calls, in order
    probe       \* the last query of an adapter and its answer

agtVars == <<settings, slog, probe>>

\* No adapter is called.
AgentsUnused ==
    /\ settings = <<>>
    /\ slog = <<>>
    /\ probe = <<>>

\* What the steps of the installer, of the registry, of the update and of
\* the adapters leave alone.
notInstaller == <<regVars, updVars, agtVars>>
notRegistry == <<vars, updVars, agtVars>>
notUpdate == <<vars, regVars, agtVars>>
notAgents == <<vars, regVars, updVars>>
allVars == <<vars, regVars, updVars, agtVars>>

\* No registry object exists and no thread uses the registry.
RegistryUnused ==
    /\ instance = 0
    /\ heap = <<>>
    /\ thr = <<>>
    /\ rlog = <<>>

----------------------------------------------------------------------------
(* Bounds of the model *)

\* The number of install_package / uninstall_package calls in one run.
MaxCalls == 4

\* The number of failures (a raising hook, a failing copy or removal) in one run.
MaxFaults == 1

----------------------------------------------------------------------------
(* Paths *)

Last(s) == s[Len(s)]

Front(s) == SubSeq(s, 1, Len(s) - 1)

\* pathlib's `a / b` for a relative b.
Join(p, q) == p \o q

\* pathlib's `.parent` (lexical).
Parent(p) == IF p = <<>> THEN <<>> ELSE Front(p)

\* The path the operating system reaches for a lexical path: ".." steps to
\* the parent directory.  A path that leaves the project root keeps its
\* leading ".." components.
RECURSIVE ResolveOnto(_, _)
ResolveOnto(stack, rest) ==
    IF rest = <<>> THEN stack
    ELSE IF Head(rest) = ".."
         THEN ResolveOnto(IF stack = <<>> \/ Last(stack) = ".."
                          THEN Append(stack, "..")
                          ELSE Front(stack),
                          Tail(rest))
         ELSE ResolveOnto(Append(stack, Head(rest)), Tail(rest))

Resolve(p) == ResolveOnto(<<>>, p)

\* p is d or lies below d (both resolved).
IsUnder(p, d) == Len(p) >= Len(d) /\ SubSeq(p, 1, Len(d)) = d

----------------------------------------------------------------------------
(* Agents *)

\* The adapters of the model: "test", an adapter with the default folder
\* mapping, and "custom", the adapter of test_get_group_folder_custom_mapping,
\* which remaps its groups to other folder names.
Agents == {"test", "custom"}

\* No group: `if group:` treats None and "" alike.
NoGroup == ""

\* BaseAgent.directory of each adapter.
AgentDirectory(agent) == IF agent = "custom" THEN ".custom" ELSE ".test"

\* BaseAgent.get_directory(project_root): project_root / self.directory by
\* default; the custom adapter overrides it and keeps its directory in a
\* folder of the project.
GetDirectory(agent) ==
    IF agent = "custom"
    THEN <<"config", AgentDirectory(agent)>>
    ELSE <<AgentDirectory(agent)>>

\* BaseAgent.get_group_folder: the identity by default; the custom adapter
\* overrides it.
GetGroupFolder(agent, group) ==
    IF agent = "custom"
    THEN CASE group = "prompts" -> ".prompts"
           [] group = "rules"   -> "project_rules"
           [] OTHER             -> group
    ELSE group

----------------------------------------------------------------------------
(* Packages: the source files the caller hands to install_package *)

\* Content of the source files, a sequence of bytes.
SourceContent(src) == IF src = "s1.md" THEN <<1>> ELSE <<2>>

Entry(src, path, group) == [src |-> src, path |-> path, group |-> group]

\* source_files of each package: (source_file, installed_path, group).
Manifest(pkg) ==
    CASE pkg = "pkg"   -> << Entry("s1.md", <<"a.md">>, NoGroup),
                             Entry("s2.md", <<"b.md">>, "prompts") >>
      [] pkg = "evil"  -> << Entry("s1.md", <<"a.md">>, NoGroup),
                             Entry("s2.md", <<"..", "x.md">>, NoGroup) >>
      [] pkg = "prompts" -> << Entry("s1.md", <<"pkg", "b.md">>, NoGroup) >>

Packages == {"pkg", "evil"}

\* A package with grouped files, and a package whose name is the name of a
\* group folder.
GroupNamePackages == {"pkg", "prompts"}

----------------------------------------------------------------------------
(* The filesystem *)

PathExists(fs, ds, p) == p \in ds \/ p \in DOMAIN fs

\* The regular files below directory d (package_dir.rglob("*") with is_file()).
\* Variant: every file of the agent directory is listed.
FilesUnder_AgentDir(fs, d) == {p \in DOMAIN fs : IsUnder(p, Parent(d)) /\ p # d}

FilesUnder(fs, d) == {p \in DOMAIN fs : IsUnder(p, d) /\ p # d}

\* Variant: a destination that exists already is left as it is.
WriteFile_KeepExisting(fs, p, content) ==
    IF p \in DOMAIN fs THEN fs
    ELSE [q \in DOMAIN fs \cup {p} |-> IF q = p THEN content ELSE fs[q]]

\* Variant: the destination is opened for appending.
WriteFile_Append(fs, p, content) ==
    [q \in DOMAIN fs \cup {p} |->
        IF q = p THEN (IF p \in DOMAIN fs THEN fs[p] \o content ELSE content)
        ELSE fs[q]]

\* open(dst, "wb") and write: the file is created or overwritten.
WriteFile(fs, p, content) ==
    [q \in DOMAIN fs \cup {p} |-> IF q = p THEN content ELSE fs[q]]

\* Path.mkdir(parents=True, exist_ok=True): every lexical prefix of p is
\* made a directory.
Mkdirs(ds, p) == ds \cup {Resolve(SubSeq(p, 1, k)) : k \in 1..Len(p)}

\* mkdir raises when a regular file is in the way.
MkdirBlocked(fs, p) == \E k \in 1..Len(p) : Resolve(SubSeq(p, 1, k)) \in DOMAIN fs

\* shutil.rmtree(d): the subtree below d is removed, d included.
RmtreeFiles(fs, d) == [q \in {r \in DOMAIN fs : ~IsUnder(r, d)} |-> fs[q]]

RmtreeDirs(ds, d) == {r \in ds : ~IsUnder(r, d)}

\* dumpty.utils.calculate_checksum: a tagged strong hash of the content,
\* modelled as an injective function of the content.
Checksum(content) == <<"sha256", content>>

----------------------------------------------------------------------------
(* FileInstaller.install_file: where a file goes *)

\* agent_dir = self.project_root / agent.directory
AgentDir(agent) == <<AgentDirectory(agent)>>

\* package_dir of install_file.
PackageDir(agent, pkg, group) ==
    IF group # NoGroup
    THEN Join(AgentDir(agent), <<group, pkg>>)
    ELSE Join(AgentDir(agent), <<pkg>>)

\* Variant: the destination leaves the group folder out.
DestFile_IgnoreGroup(agent, pkg, e) ==
    Join(PackageDir(agent, pkg, NoGroup), e.path)

\* dest_file = package_dir / installed_path (lexical, not resolved).
DestFile(agent, pkg, e) == Join(PackageDir(agent, pkg, e.group), e.path)

\* The file shutil.copy2 writes: into dst when dst is a directory.
CopyTarget(ds, dest, src) ==
    IF Resolve(dest) \in ds THEN Append(Resolve(dest), src) ELSE Resolve(dest)

----------------------------------------------------------------------------
(* FileInstaller.install_package / uninstall_package: locals of a call *)

\* install_dir = agent_dir / package_name, the directory handed to the hooks.
InstallDir(agent, pkg) == Join(AgentDir(agent), <<pkg>>)

\* Variant: the planned paths leave the group folder out.
InstallPaths_IgnoreGroup(agent, pkg, sf) ==
    [i \in 1..Len(sf) |-> Join(<<AgentDirectory(agent), pkg>>, sf[i].path)]

\* install_paths: one path per entry, relative to the project root.
InstallPaths(agent, pkg, sf) ==
    [i \in 1..Len(sf) |->
        IF sf[i].group # NoGroup
        THEN Join(<<AgentDirectory(agent), sf[i].group, pkg>>, sf[i].path)
        ELSE Join(<<AgentDirectory(agent), pkg>>, sf[i].path)]

\* The value a hook receives as its install_dirs argument: the installer
\* passes one Path, not a list of them.
HookDirsArg(d) == [kind |-> "path", path |-> d]

NoCall ==
    [op |-> "none", agent |-> "", pkg |-> "", source_files |-> <<>>,
     hook_dirs |-> HookDirsArg(<<>>), install_paths |-> <<>>,
     uninstall_paths |-> {}, files_before |-> <<>>, dirs_before |-> {}]

----------------------------------------------------------------------------
(* Control flow of the two handlers: the step that follows a step.         *)
(* "return" and "raise" end the call.                                      *)

\* Variant: pre_install is called after the copy loop instead of before it.
InstallNext_PreAfterLoop(phase, i, n, raised) ==
    IF raised THEN "raise"
    ELSE CASE phase = "entry"        -> IF n = 0 THEN "pre_install" ELSE "copy"
           [] phase = "copy"         -> IF i < n THEN "copy" ELSE "pre_install"
           [] phase = "pre_install"  -> "post_install"
           [] phase = "post_install" -> "return"

\* Variant: the copy loop catches the error of a copy and goes on.
InstallNext_SwallowCopyError(phase, i, n, raised) ==
    IF raised /\ phase # "copy" THEN "raise"
    ELSE CASE phase = "entry"        -> "pre_install"
           [] phase = "pre_install"  -> IF n = 0 THEN "post_install" ELSE "copy"
           [] phase = "copy"         -> IF i < n THEN "copy" ELSE "post_install"
           [] phase = "post_install" -> "return"

\* install_package, lines 98-112: pre_install, the copy loop, post_install;
\* nothing is caught, so a raising step ends the call.
InstallNext(phase, i, n, raised) ==
    IF raised THEN "raise"
    ELSE CASE phase = "entry"        -> "pre_install"
           [] phase = "pre_install"  -> IF n = 0 THEN "post_install" ELSE "copy"
           [] phase = "copy"         -> IF i < n THEN "copy" ELSE "post_install"
           [] phase = "post_install" -> "return"

\* Variant: the directory is removed before pre_uninstall is called.
UninstallNext_RemoveFirst(phase, exists, raised) ==
    IF raised THEN "raise"
    ELSE CASE phase = "entry"          -> IF ~exists THEN "return" ELSE "rmtree"
           [] phase = "rmtree"         -> "pre_uninstall"
           [] phase = "pre_uninstall"  -> "post_uninstall"
           [] phase = "post_uninstall" -> "return"

\* Variant: no early return when the package directory does not exist.
UninstallNext_NoExistsCheck(phase, exists, raised) ==
    IF raised THEN "raise"
    ELSE CASE phase = "entry"          -> "pre_uninstall"
           [] phase = "pre_uninstall"  -> "rmtree"
           [] phase = "rmtree"         -> "post_uninstall"
           [] phase = "post_uninstall" -> "return"

\* Variant: an error raised by a hook is caught and the call goes on.
UninstallNext_SwallowHookError(phase, exists, raised) ==
    IF raised /\ phase = "rmtree" THEN "raise"
    ELSE CASE phase = "entry"          -> IF ~exists THEN "return" ELSE "pre_uninstall"
           [] phase = "pre_uninstall"  -> "rmtree"
           [] phase = "rmtree"         -> "post_uninstall"
           [] phase = "post_uninstall" -> "return"

\* uninstall_package, lines 125-149: early return when the package
\* directory does not exist, then pre_uninstall, rmtree, post_uninstall.
UninstallNext(phase, exists, raised) ==
    IF raised THEN "raise"
    ELSE CASE phase = "entry"          -> IF ~exists THEN "return" ELSE "pre_uninstall"
           [] phase = "pre_uninstall"  -> "rmtree"
           [] phase = "rmtree"         -> "post_uninstall"
           [] phase = "post_uninstall" -> "return"

\* Variant: a failing copy removes the files the call has written so far.
OnCopyFailure_Rollback(fs, written) ==
    [q \in {r \in DOMAIN fs : r \notin written} |-> fs[q]]

\* What a failing copy leaves of the files written so far: install_package
\* has no handler, so nothing is rolled back.
OnCopyFailure(fs, written) == fs

----------------------------------------------------------------------------
(* Steps *)

\* An entry of the trace of a call: a hook invocation with the arguments the
\* hook received, a copy (of entry number `entry`, to `path`) or the removal
\* of `path`, each with the filesystem it saw or left.
Event(kind, raised, entry, path) ==
    [kind |-> kind, raised |-> raised, entry |-> entry, path |-> path,
     hook_dirs |-> call.hook_dirs,
     hook_files |-> IF call.op = "install" THEN call.install_paths ELSE <<>>,
     hook_file_set |-> call.uninstall_paths,
     files |-> files, dirs |-> dirs]

\* The call ends: its record joins the history.
Finish(outcome, raisedAt, c, fs, ds, res, evs) ==
    /\ pc' = "idle"
    /\ history' = Append(history,
            [op |-> c.op, agent |-> c.agent, pkg |-> c.pkg,
             outcome |-> outcome, raised_at |-> raisedAt,
             results |-> res,
             files_before |-> c.files_before, dirs_before |-> c.dirs_before,
             files |-> fs, dirs |-> ds])

\* Move to step `next`, or end the call when next is "return" or "raise".
Goto(next, phase, c, fs, ds, res, evs) ==
    IF next \in {"return", "raise"}
    THEN Finish(IF next = "return" THEN "returned" ELSE "raised",
                IF next = "return" THEN "none" ELSE phase, c, fs, ds, res, evs)
    ELSE pc' = next /\ UNCHANGED history

CanFail == faults < MaxFaults

\* install_package is called: lines 83-96.
InstallPackage(pkg) ==
    /\ pc = "idle"
    /\ Len(history) < MaxCalls
    /\ LET sf == Manifest(pkg)
           c  == [op |-> "install", agent |-> target, pkg |-> pkg,
                  source_files |-> sf,
                  hook_dirs |-> HookDirsArg(InstallDir(target, pkg)),
                  install_paths |-> InstallPaths(target, pkg, sf),
                  uninstall_paths |-> {},
                  files_before |-> files, dirs_before |-> dirs]
       IN /\ call' = c
          /\ Goto(InstallNext("entry", 0, Len(sf), FALSE), "entry", c,
                  files, dirs, <<>>, <<>>)
    /\ idx' = 0
    /\ results' = <<>>
    /\ events' = <<>>
    /\ UNCHANGED <<target, files, dirs, faults, notInstaller>>

\* A hook of the agent implementation runs: it returns, or it raises.
Hook(phase, raised) ==
    /\ pc = phase
    /\ raised => CanFail
    /\ faults' = IF raised THEN faults + 1 ELSE faults
    /\ LET evs  == Append(events, Event(phase, raised, 0, <<>>))
           next == IF call.op = "install"
                   THEN InstallNext(phase, idx, Len(call.source_files), raised)
                   ELSE UninstallNext(phase, TRUE, raised)
       IN /\ events' = evs
          /\ Goto(next, phase, call, files, dirs, results, evs)
    /\ UNCHANGED <<target, files, dirs, call, idx, results, notInstaller>>

PreInstall == \E raised \in BOOLEAN : Hook("pre_install", raised)

PostInstall == \E raised \in BOOLEAN : Hook("post_install", raised)

PreUninstall == \E raised \in BOOLEAN : Hook("pre_uninstall", raised)

PostUninstall == \E raised \in BOOLEAN : Hook("post_uninstall", raised)

\* One round of the copy loop: install_file for the next entry, lines 45-63.
\* fault "none": the copy succeeds; "nosrc": copy2 raises before it writes
\* (source missing, permission denied); "trunc": copy2 raises after it
\* opened the destination (disk full), which leaves it truncated.
InstallFile(fault) ==
    /\ pc = "copy"
    /\ fault # "none" => CanFail
    /\ LET e       == call.source_files[idx + 1]
           dest    == DestFile(call.agent, call.pkg, e)
           blocked == MkdirBlocked(files, Parent(dest))
           ds      == IF blocked THEN dirs ELSE Mkdirs(dirs, Parent(dest))
           dst     == CopyTarget(ds, dest, e.src)
           content == SourceContent(e.src)
           isDir   == Resolve(dest) \in ds
           written == {Resolve(DestFile(call.agent, call.pkg, call.source_files[j]))
                         : j \in 1..idx}
           fs      == CASE blocked         -> files
                        [] fault = "nosrc" -> OnCopyFailure(files, written)
                        [] fault = "trunc" ->
                              OnCopyFailure(WriteFile(files, dst, <<>>), written)
                        [] OTHER           -> WriteFile(files, dst, content)
           raised  == blocked \/ fault # "none" \/ isDir
           res     == IF raised THEN results
                      ELSE Append(results, <<dest, Checksum(fs[Resolve(dest)])>>)
           evs     == Append(events,
                        [Event("copy", raised, idx + 1, dst) EXCEPT
                            !.files = fs, !.dirs = ds])
           next    == InstallNext("copy", idx + 1, Len(call.source_files), raised)
       IN /\ files' = fs
          /\ dirs' = ds
          /\ results' = res
          /\ events' = evs
          /\ idx' = IF raised THEN idx ELSE idx + 1
          /\ Goto(next, "copy", call, fs, ds, res, evs)
    /\ faults' = IF fault # "none" THEN faults + 1 ELSE faults
    /\ UNCHANGED <<target, call, notInstaller>>

CopyStep == \E fault \in {"none", "nosrc", "trunc"} : InstallFile(fault)

\* uninstall_package is called: lines 122-140.
UninstallPackage(pkg) ==
    /\ pc = "idle"
    /\ Len(history) < MaxCalls
    /\ LET d  == InstallDir(target, pkg)
           c  == [op |-> "uninstall", agent |-> target, pkg |-> pkg,
                  source_files |-> <<>>,
                  hook_dirs |-> HookDirsArg(d),
                  install_paths |-> <<>>,
                  uninstall_paths |-> FilesUnder(files, d),
                  files_before |-> files, dirs_before |-> dirs]
       IN /\ call' = c
          /\ Goto(UninstallNext("entry", PathExists(files, dirs, d), FALSE),
                  "entry", c, files, dirs, <<>>, <<>>)
    /\ idx' = 0
    /\ results' = <<>>
    /\ events' = <<>>
    /\ UNCHANGED <<target, files, dirs, faults, notInstaller>>

\* shutil.rmtree(package_dir), line 146.  It raises when package_dir is no
\* directory, and may fail (permission denied), leaving the tree in place.
Rmtree(fault) ==
    /\ pc = "rmtree"
    /\ fault => CanFail
    /\ LET d      == call.hook_dirs.path
           raised == fault \/ d \notin dirs
           fs     == IF raised THEN files ELSE RmtreeFiles(files, d)
           ds     == IF raised THEN dirs ELSE RmtreeDirs(dirs, d)
           evs    == Append(events,
                        [Event("rmtree", raised, 0, d) EXCEPT
                            !.files = fs, !.dirs = ds])
       IN /\ files' = fs
          /\ dirs' = ds
          /\ events' = evs
          /\ Goto(UninstallNext("rmtree", TRUE, raised), "rmtree", call,
                  fs, ds, results, evs)
    /\ faults' = IF fault THEN faults + 1 ELSE faults
    /\ UNCHANGED <<target, call, idx, results, notInstaller>>

RmtreeStep == \E fault \in BOOLEAN : Rmtree(fault)

----------------------------------------------------------------------------
(* The specification *)

InstallerInit ==
    /\ target \in Agents
    /\ files = <<>>
    /\ dirs = {<<>>}
    /\ pc = "idle"
    /\ call = NoCall
    /\ idx = 0
    /\ results = <<>>
    /\ events = <<>>
    /\ history = <<>>
    /\ faults = 0

Next ==
    \/ \E pkg \in Packages : InstallPackage(pkg)
    \/ PreInstall
    \/ CopyStep
    \/ PostInstall
    \/ \E pkg \in Packages : UninstallPackage(pkg)
    \/ PreUninstall
    \/ RmtreeStep
    \/ PostUninstall

\* The installer on its own: the registry and the update are not used.
Init == InstallerInit /\ RegistryUnused /\ UpdateUnused /\ AgentsUnused

Spec == Init /\ [][Next]_allVars

\* The installer called for one agent with a package named like a group
\* folder.
GroupNameInit == Init /\ target = "test"

GroupNameNext ==
    \/ \E pkg \in GroupNamePackages : InstallPackage(pkg)
    \/ PreInstall
    \/ CopyStep
    \/ PostInstall
    \/ \E pkg \in GroupNamePackages : UninstallPackage(pkg)
    \/ PreUninstall
    \/ RmtreeStep
    \/ PostUninstall

GroupNameSpec == GroupNameInit /\ [][GroupNameNext]_allVars

----------------------------------------------------------------------------
(* The agent registry: agents/registry.py                                  *)

MaxRegOps == 4

\* str.lower() on the names in use.
Lower(n) ==
    CASE n = "Claude"  -> "claude"
      [] n = "CLAUDE"  -> "claude"
      [] n = "Copilot" -> "copilot"
      [] OTHER         -> n

\* The objects handed to register: three agent implementations, two of them
\* with names that differ in case only, and an object with a name that is
\* not an agent implementation.
Objects ==
    { [id |-> "a1", name |-> "Claude",  base_agent |-> TRUE],
      [id |-> "a2", name |-> "claude",  base_agent |-> TRUE],
      [id |-> "a3", name |-> "Copilot", base_agent |-> TRUE],
      [id |-> "x1", name |-> "gemini",  base_agent |-> FALSE] }

\* The names handed to get_agent.
Names == {"claude", "CLAUDE", "copilot", "gemini"}

\* None, where an agent is expected.
NoAgent == [id |-> "None", name |-> "", base_agent |-> FALSE]

\* {}: the empty _agents table.
EmptyTable == <<>>

\* An AgentRegistry object as super().__new__ returns it: without _agents.
NewObject == [has_agents |-> FALSE, agents |-> EmptyTable]

\* self._agents[name] = agent
Insert(tb, n, a) == [q \in DOMAIN tb \cup {n} |-> IF q = n THEN a ELSE tb[q]]

\* Variant: a registry object is created on every construction.
NewBranch_AlwaysCreate(inst) == "new_alloc"

\* __new__, line 14: a registry object is created only when none exists.
NewBranch(inst) == IF inst = 0 THEN "new_alloc" ELSE "new_return"

\* Variant: no check of the argument's type.
RegisterCheck_NoTypeCheck(tb, obj) ==
    IF Lower(obj.name) \in DOMAIN tb THEN "ValueError" ELSE "reg_insert"

\* Variant: a name already present is overwritten.
RegisterCheck_Overwrite(tb, obj) ==
    IF ~obj.base_agent THEN "TypeError" ELSE "reg_insert"

\* register, lines 30-35: what follows the checks.
RegisterCheck(tb, obj) ==
    IF ~obj.base_agent THEN "TypeError"
    ELSE IF Lower(obj.name) \in DOMAIN tb THEN "ValueError"
    ELSE "reg_insert"

\* Variant: the name is looked up as given.
GetAgent_CaseSensitive(tb, n) == IF n \in DOMAIN tb THEN tb[n] ELSE NoAgent

\* get_agent, line 49: self._agents.get(name.lower())
GetAgent(tb, n) == IF Lower(n) \in DOMAIN tb THEN tb[Lower(n)] ELSE NoAgent

Threads == DOMAIN thr

IdleThread(r) == [pc |-> "idle", ref |-> r, agent |-> NoAgent, name |-> "",
                  before |-> EmptyTable]

\* Registry calls begun so far.
RegOps == Len(rlog) + Cardinality({t \in Threads : thr[t].pc # "idle"})

\* The _agents table of the object thread t holds a reference to.
TableOf(t) == heap[thr[t].ref].agents

\* A call of thread t ends and leaves the objects hp: it is logged with the
\* table it started on and the table of its object in hp.
RegDone(t, op, obj, n, outcome, result, r, before, hp) ==
    /\ heap' = hp
    /\ rlog' = Append(rlog, [thread |-> t, op |-> op, agent |-> obj,
                             name |-> n, outcome |-> outcome,
                             result |-> result, ref |-> r,
                             before |-> before, after |-> hp[r].agents])
    /\ thr' = [thr EXCEPT ![t] = IdleThread(r)]

\* AgentRegistry() is called; line 14 reads cls._instance.
NewCheck(t) ==
    /\ thr[t].pc = "idle"
    /\ RegOps < MaxRegOps
    /\ thr' = [thr EXCEPT
                 ![t].pc = NewBranch(instance),
                 ![t].before = IF instance = 0 THEN EmptyTable
                               ELSE heap[instance].agents]
    /\ UNCHANGED <<instance, heap, rlog, notRegistry>>

\* Line 15: cls._instance = super().__new__(cls)
NewAlloc(t) ==
    /\ thr[t].pc = "new_alloc"
    /\ heap' = Append(heap, NewObject)
    /\ instance' = Len(heap) + 1
    /\ thr' = [thr EXCEPT ![t].pc = "new_init"]
    /\ UNCHANGED <<rlog, notRegistry>>

\* Line 16: cls._instance._agents = {}
NewInitAgents(t) ==
    /\ thr[t].pc = "new_init"
    /\ heap' = [heap EXCEPT ![instance] =
                   [has_agents |-> TRUE, agents |-> EmptyTable]]
    /\ thr' = [thr EXCEPT ![t].pc = "new_return"]
    /\ UNCHANGED <<instance, rlog, notRegistry>>

\* Line 17: return cls._instance
NewReturn(t) ==
    /\ thr[t].pc = "new_return"
    /\ RegDone(t, "new", NoAgent, "", "ok", NoAgent, instance,
               thr[t].before, heap)
    /\ UNCHANGED <<instance, notRegistry>>

\* self._agents is read on an object that has none yet.
NoAgentsYet(t) == ~heap[thr[t].ref].has_agents

\* register(obj) is called on the reference of thread t: lines 30-35.
Register(t, obj) ==
    /\ thr[t].pc = "idle" /\ thr[t].ref # 0
    /\ RegOps < MaxRegOps
    /\ LET next == IF obj.base_agent /\ NoAgentsYet(t) THEN "AttributeError"
                   ELSE RegisterCheck(TableOf(t), obj)
       IN IF next = "reg_insert"
          THEN /\ thr' = [thr EXCEPT ![t] =
                            [pc |-> "reg_insert", ref |-> thr[t].ref,
                             agent |-> obj, name |-> Lower(obj.name),
                             before |-> TableOf(t)]]
               /\ UNCHANGED <<heap, rlog>>
          ELSE RegDone(t, "register", obj, "", next, NoAgent, thr[t].ref,
                       TableOf(t), heap)
    /\ UNCHANGED <<instance, notRegistry>>

\* Line 37: self._agents[name] = agent
RegisterInsert(t) ==
    /\ thr[t].pc = "reg_insert"
    /\ RegDone(t, "register", thr[t].agent, "", "ok", NoAgent, thr[t].ref,
               thr[t].before,
               [heap EXCEPT ![thr[t].ref].agents =
                   Insert(TableOf(t), thr[t].name, thr[t].agent)])
    /\ UNCHANGED <<instance, notRegistry>>

\* all_agents, line 53, and all_names, line 57: the values and the keys of
\* the table, here without their order.
AllAgents(tb) == {tb[k] : k \in DOMAIN tb}

AllNames(tb) == DOMAIN tb

\* Variant: clear() leaves the entries in place.
Cleared_KeepsEntries(tb) == tb

\* self._agents.clear(), line 61.
Cleared(tb) == EmptyTable

\* get_agent(n) is called on the reference of thread t: line 49.
GetAgentCall(t, n) ==
    /\ thr[t].pc = "idle" /\ thr[t].ref # 0
    /\ RegOps < MaxRegOps
    /\ IF NoAgentsYet(t)
       THEN RegDone(t, "get_agent", NoAgent, n, "AttributeError", NoAgent,
                    thr[t].ref, TableOf(t), heap)
       ELSE RegDone(t, "get_agent", NoAgent, n, "ok", GetAgent(TableOf(t), n),
                    thr[t].ref, TableOf(t), heap)
    /\ UNCHANGED <<instance, notRegistry>>

\* clear() is called on the reference of thread t: line 61.
Clear(t) ==
    /\ thr[t].pc = "idle" /\ thr[t].ref # 0
    /\ RegOps < MaxRegOps
    /\ IF NoAgentsYet(t)
       THEN RegDone(t, "clear", NoAgent, "", "AttributeError", NoAgent,
                    thr[t].ref, TableOf(t), heap)
       ELSE RegDone(t, "clear", NoAgent, "", "ok", NoAgent, thr[t].ref,
                    TableOf(t),
                    [heap EXCEPT ![thr[t].ref].agents = Cleared(TableOf(t))])
    /\ UNCHANGED <<instance, notRegistry>>

\* No registry object exists yet, the threads in ts hold no reference, and
\* neither the installer nor the update is used.
RegistryInit(ts) ==
    /\ instance = 0
    /\ heap = <<>>
    /\ thr = [t \in ts |-> IdleThread(0)]
    /\ rlog = <<>>
    /\ InstallerInit /\ target = "test"
    /\ UpdateUnused
    /\ AgentsUnused

RegistryNext ==
    \/ \E t \in Threads : NewCheck(t)
    \/ \E t \in Threads : NewAlloc(t)
    \/ \E t \in Threads : NewInitAgents(t)
    \/ \E t \in Threads : NewReturn(t)
    \/ \E t \in Threads, obj \in Objects : Register(t, obj)
    \/ \E t \in Threads : RegisterInsert(t)
    \/ \E t \in Threads, n \in Names : GetAgentCall(t, n)
    \/ \E t \in Threads : Clear(t)

\* One thread uses the registry: its calls follow one another.
RegistryInitOne == RegistryInit({"t1"})

RegistrySpec == RegistryInitOne /\ [][RegistryNext]_allVars

\* Two threads use the registry: the steps of their calls interleave.
RegistryInitTwo == RegistryInit({"t1", "t2"})

RegistryThreadsSpec == RegistryInitTwo /\ [][RegistryNext]_allVars

----------------------------------------------------------------------------
(* The lockfile-driven update of one installed package                     *)

MaxTags == 3

\* The versions the source may hold tags of.
TagVersions == {<<0, 2, 0>>, <<1, 0, 0>>, <<1, 1, 0>>, <<2, 0, 0>>}

\* A tag as fetch_tags returns it, and a version as the caller writes it.
Tag(v) == [prefix |-> "refs/tags/v", version |-> v]
Request(v) == [prefix |-> "v", version |-> v]

\* No version was named by the caller.
NoRequest == [prefix |-> "", version |-> <<>>]

\* No files of the package are in an agent's directory.
NoFiles == <<>>

\* The tag lists fetch_tags may return: up to MaxTags tags, in any order.
TagLists ==
    {s \in UNION {[1..n -> {Tag(v) : v \in TagVersions}] : n \in 0..MaxTags} :
        \A i, j \in DOMAIN s : s[i] = s[j] => i = j}

\* What the caller may ask for: nothing, a version the source may hold, or
\* a version it does not hold.
Requests ==
    {NoRequest} \cup {Request(v) : v \in TagVersions \cup {<<9, 9, 9>>}}

\* The agents the lockfile records the package as installed for.
UpdateAgents == {"copilot", "claude"}

\* The version a tag or a named version stands for: its prefix is dropped.
ParseVersion(t) == t.version

\* The versions of a tag list.
TagVersionsOf(tags) == {ParseVersion(tags[i]) : i \in DOMAIN tags}

\* Semantic-version order: by major, then minor, then patch number.
SemverLess(a, b) ==
    \/ a[1] < b[1]
    \/ a[1] = b[1] /\ a[2] < b[2]
    \/ a[1] = b[1] /\ a[2] = b[2] /\ a[3] < b[3]

\* The highest version of a non-empty tag list.
Highest(tags) ==
    CHOOSE v \in TagVersionsOf(tags) :
       \A w \in TagVersionsOf(tags) : ~SemverLess(v, w)

\* Variant: the tag fetched last is taken for the latest.
SelectTarget_LastTag(tags, req) ==
    IF req = NoRequest THEN ParseVersion(tags[Len(tags)])
    ELSE ParseVersion(req)

\* Variant: a named version is ignored.
SelectTarget_IgnoreRequest(tags, req) == Highest(tags)

\* The target version of an update on a non-empty tag list.
SelectTarget(tags, req) ==
    IF req = NoRequest THEN Highest(tags) ELSE ParseVersion(req)

\* The states the flow may be in once the tags are fetched.  With no tags
\* and a named version both terminal states fit the description.
Resolution(tags, req) ==
    IF tags = <<>>
    THEN IF req = NoRequest THEN {"NoTags"} ELSE {"NoTags", "VersionNotFound"}
    ELSE IF req # NoRequest /\ ParseVersion(req) \notin TagVersionsOf(tags)
    THEN {"VersionNotFound"}
    ELSE {"ResolutionKnown"}

\* Variant: the package is reinstalled whatever the target version.
AfterResolution_AlwaysReinstall(t, v) == "Downloading"

\* What follows ResolutionKnown(T) on Installed(V).
AfterResolution(t, v) == IF t = v THEN "UpToDate" ELSE "Downloading"

\* Variant: the lockfile is written as soon as the reinstall begins.
LockfileReady_Early(d, t) == TRUE

\* The reinstall is complete: every agent's directory holds the files of T.
LockfileReady(d, t) == \A a \in UpdateAgents : d[a] = t

\* The exit status of the update command in a terminal state.
ExitCode(state) == IF state = "Failed" THEN "failure" ELSE "success"

ULog(kind, a, v) == [kind |-> kind, agent |-> a, version |-> v]

\* The update command is called and fetches the tags of the source.
FetchTags(tags, req) ==
    /\ ustate = "Installed" /\ ulog = <<>>
    /\ utags' = tags
    /\ ureq' = req
    /\ \E next \in Resolution(tags, req) :
          /\ ustate' = next
          /\ utarget' = IF next = "ResolutionKnown"
                        THEN SelectTarget(tags, req) ELSE utarget
    /\ ulog' = Append(ulog, ULog("fetch", "", lock))
    /\ UNCHANGED <<lock, disk, notUpdate>>

\* The target version is compared with the installed version.
CompareVersions ==
    /\ ustate = "ResolutionKnown"
    /\ ustate' = AfterResolution(utarget, lock)
    /\ UNCHANGED <<lock, utags, ureq, utarget, disk, ulog, notUpdate>>

\* download(source, T) returns, or fails.
Download(ok) ==
    /\ ustate = "Downloading"
    /\ ustate' = IF ok THEN "ManifestResolved" ELSE "Failed"
    /\ ulog' = Append(ulog, ULog("download", "", utarget))
    /\ UNCHANGED <<lock, utags, ureq, utarget, disk, notUpdate>>

\* The manifest of T is resolved: the reinstall begins.
BeginReinstall ==
    /\ ustate = "ManifestResolved"
    /\ ustate' = "Reinstalling"
    /\ UNCHANGED <<lock, utags, ureq, utarget, disk, ulog, notUpdate>>

\* uninstall_package for agent a: the old version's files are removed.
UninstallOld(a) ==
    /\ ustate = "Reinstalling"
    /\ disk[a] = ulog[1].version
    /\ disk' = [disk EXCEPT ![a] = NoFiles]
    /\ ulog' = Append(ulog, ULog("uninstall", a, disk[a]))
    /\ UNCHANGED <<ustate, lock, utags, ureq, utarget, notUpdate>>

\* install_package for agent a: the files of T are copied, or a copy fails.
InstallNew(a, ok) ==
    /\ ustate = "Reinstalling"
    /\ disk[a] = NoFiles
    /\ disk' = [disk EXCEPT ![a] = IF ok THEN utarget ELSE NoFiles]
    /\ ustate' = IF ok THEN ustate ELSE "Failed"
    /\ ulog' = Append(ulog, ULog(IF ok THEN "install" ELSE "install_failed",
                                 a, utarget))
    /\ UNCHANGED <<lock, utags, ureq, utarget, notUpdate>>

\* add_package: the lockfile record is replaced by the record of T.
UpdateLockfile ==
    /\ ustate = "Reinstalling"
    /\ LockfileReady(disk, utarget)
    /\ lock # utarget
    /\ lock' = utarget
    /\ ustate' = "Installed"
    /\ ulog' = Append(ulog, ULog("lockfile", "", utarget))
    /\ UNCHANGED <<utags, ureq, utarget, disk, notUpdate>>

\* The package is installed at some version for every agent of its record;
\* the installer and the registry are not used.
UpdateInit ==
    /\ ustate = "Installed"
    /\ lock \in {<<1, 0, 0>>, <<2, 0, 0>>}
    /\ utags = <<>>
    /\ ureq = NoRequest
    /\ utarget = lock
    /\ disk = [a \in UpdateAgents |-> lock]
    /\ ulog = <<>>
    /\ InstallerInit /\ target = "test"
    /\ RegistryUnused
    /\ AgentsUnused

UpdateNext ==
    \/ \E tags \in TagLists, req \in Requests : FetchTags(tags, req)
    \/ CompareVersions
    \/ \E ok \in BOOLEAN : Download(ok)
    \/ BeginReinstall
    \/ \E a \in UpdateAgents : UninstallOld(a)
    \/ \E a \in UpdateAgents, ok \in BOOLEAN : InstallNew(a, ok)
    \/ UpdateLockfile

UpdateSpec == UpdateInit /\ [][UpdateNext]_allVars

----------------------------------------------------------------------------
(* The agent adapters: agents/copilot.py, agents/claude.py and the others  *)

MaxHookCalls == 3

\* The settings keys the Copilot hooks maintain, in the order of the code.
ChatKeys ==
    <<"chat.promptFilesLocations", "chat.instructionsFilesLocations",
      "chat.modeFilesLocations">>

\* JSON values: a mapping, null, an empty list, or a number.
MapValue(m) == [type |-> "map", m |-> m]
NullValue == [type |-> "null", m |-> <<>>]
ListValue == [type |-> "list", m |-> <<>>]
NumberValue == [type |-> "number", m |-> <<>>]

\* What .vscode/settings.json is: absent, a JSON document, text that is no
\* JSON, or bytes that are no text.
AbsentDoc == [kind |-> "absent", val |-> NullValue]
JsonDoc(v) == [kind |-> "json", val |-> v]
UnparsableDoc == [kind |-> "unparsable", val |-> NullValue]
UndecodableDoc == [kind |-> "undecodable", val |-> NullValue]

\* The directories of a package, as str(install_dir.relative_to(root)).
HookDirs == {".github/pkg", ".github/prompts/pkg"}

\* The install_dirs argument of a hook: a list of directories, as the hook
\* documents it, or the one Path the installer passes.
HookArgs ==
    {[kind |-> "list", dirs |-> s] :
        s \in {<<>>} \cup {<<d>> : d \in HookDirs}
                \cup {<<d, e>> : d \in {".github/pkg"}, e \in HookDirs}}
    \cup {[kind |-> "path", dirs |-> <<d>>] : d \in {".github/pkg"}}

\* The settings files the hooks may find.
SettingsDocs ==
    { AbsentDoc, UnparsableDoc, UndecodableDoc,
      JsonDoc(ListValue), JsonDoc(NullValue), JsonDoc(MapValue(<<>>)),
      JsonDoc(MapValue([k \in {"chat.promptFilesLocations"} |-> NullValue])),
      JsonDoc(MapValue([k \in {"chat.promptFilesLocations", "editor.tabSize"} |->
                  IF k = "editor.tabSize" THEN NumberValue
                  ELSE MapValue([p \in {".github/pkg"} |-> FALSE])])) }

\* d[k] = v
Put(d, k, v) == [q \in DOMAIN d \cup {k} |-> IF q = k THEN v ELSE d[q]]

\* del d[k]
Del(d, k) == [q \in DOMAIN d \ {k} |-> d[q]]

\* The outcome of a piece of a hook: the settings so far, or an exception.
Ok(v) == [raised |-> "", val |-> v]
Raise(exc) == [raised |-> exc, val |-> NullValue]

\* Variant: the location is set to true whether it is present or not.
AddLocation_Overwrite(m, path) == Put(m, path, TRUE)

\* post_install, lines 97-98: if path not in settings[key]: ... = True
AddLocation(m, path) == IF path \in DOMAIN m THEN m ELSE Put(m, path, TRUE)

\* post_install, lines 95-98 (and 101-104, 107-110) for one key.
AddToKey(v, key, path) ==
    IF v.type # "map" THEN Raise("TypeError")
    ELSE LET m == IF key \in DOMAIN v.m THEN v.m
                  ELSE Put(v.m, key, MapValue(<<>>))
         IN IF m[key].type # "map" THEN Raise("TypeError")
            ELSE Ok(MapValue(Put(m, key,
                        MapValue(AddLocation(m[key].m, path)))))

\* post_uninstall, lines 158-160 (and 163-165, 168-170) for one key.
RemoveFromKey(v, key, path) ==
    IF v.type \in {"null", "number"} THEN Raise("TypeError")
    ELSE IF v.type = "list" THEN Ok(v)
    ELSE IF key \notin DOMAIN v.m THEN Ok(v)
    ELSE IF v.m[key].type \in {"null", "number"} THEN Raise("TypeError")
    ELSE IF v.m[key].type = "list" THEN Ok(v)
    ELSE IF path \notin DOMAIN v.m[key].m THEN Ok(v)
    ELSE Ok(MapValue(Put(v.m, key, MapValue(Del(v.m[key].m, path)))))

\* The body of the loop over install_dirs for one directory: the three
\* keys in turn, from key number k on.
RECURSIVE ForKeys(_, _, _, _)
ForKeys(adding, r, path, k) ==
    IF r.raised # "" \/ k > Len(ChatKeys) THEN r
    ELSE ForKeys(adding,
                 IF adding THEN AddToKey(r.val, ChatKeys[k], path)
                 ELSE RemoveFromKey(r.val, ChatKeys[k], path),
                 path, k + 1)

\* The loop over install_dirs, lines 85-110 and 150-170, from directory
\* number i on.
RECURSIVE ForDirs(_, _, _, _)
ForDirs(adding, r, ds, i) ==
    IF r.raised # "" \/ i > Len(ds) THEN r
    ELSE ForDirs(adding, ForKeys(adding, r, ds[i], 1), ds, i + 1)

\* for install_dir in install_dirs: a Path cannot be iterated.
Loop(adding, v, arg) ==
    IF arg.kind # "list" THEN Raise("TypeError")
    ELSE ForDirs(adding, Ok(v), arg.dirs, 1)

\* A hook's effect: how it ends and what the settings file is afterwards.
HookResult(outcome, doc) == [outcome |-> outcome, doc |-> doc]

\* CopilotAgent.post_install, lines 72-115.
CopilotPostInstallResult(doc, arg) ==
    IF doc.kind = "undecodable" THEN HookResult("UnicodeDecodeError", doc)
    ELSE LET loaded == IF doc.kind = "json" THEN doc.val ELSE MapValue(<<>>)
             r      == Loop(TRUE, loaded, arg)
         IN IF r.raised # "" THEN HookResult(r.raised, doc)
            ELSE HookResult("returned", JsonDoc(r.val))

\* CopilotAgent.post_uninstall, lines 138-174.
CopilotPostUninstallResult(doc, arg) ==
    IF doc.kind \in {"absent", "unparsable"} THEN HookResult("returned", doc)
    ELSE IF doc.kind = "undecodable" THEN HookResult("UnicodeDecodeError", doc)
    ELSE LET r == Loop(FALSE, doc.val, arg)
         IN IF r.raised # "" THEN HookResult(r.raised, doc)
            ELSE HookResult("returned", JsonDoc(r.val))

\* A hook call of the log.
HookCall(hook, arg, before, r) ==
    [hook |-> hook, arg |-> arg, outcome |-> r.outcome,
     before |-> before, after |-> r.doc]

CopilotPostInstall(arg) ==
    /\ Len(slog) < MaxHookCalls
    /\ LET r == CopilotPostInstallResult(settings, arg)
       IN /\ settings' = r.doc
          /\ slog' = Append(slog, HookCall("post_install", arg, settings, r))
    /\ UNCHANGED <<probe, notAgents>>

CopilotPostUninstall(arg) ==
    /\ Len(slog) < MaxHookCalls
    /\ LET r == CopilotPostUninstallResult(settings, arg)
       IN /\ settings' = r.doc
          /\ slog' = Append(slog, HookCall("post_uninstall", arg, settings, r))
    /\ UNCHANGED <<probe, notAgents>>

\* Some settings file, or none, is in place; nothing else is used.
SettingsInit ==
    /\ settings \in SettingsDocs
    /\ slog = <<>>
    /\ probe = <<>>
    /\ InstallerInit /\ target = "test"
    /\ RegistryUnused
    /\ UpdateUnused

SettingsNext ==
    \/ \E arg \in HookArgs : CopilotPostInstall(arg)
    \/ \E arg \in HookArgs : CopilotPostUninstall(arg)

SettingsSpec == SettingsInit /\ [][SettingsNext]_allVars

----------------------------------------------------------------------------
(* Detection and group validation (agents/*.py, agents/base.py)            *)

\* The adapters this repository ships.
BuiltinAgents == {"copilot", "claude", "cursor", "gemini", "continue"}

\* The `directory` property of each adapter.
BuiltinDirectory(a) ==
    CASE a = "copilot" -> ".github"
      [] a = "claude" -> ".claude"
      [] a = "cursor" -> ".cursor"
      [] a = "gemini" -> ".gemini"
      [] a = "continue" -> ".continue"

\* Variant: anything at the path counts.
IsConfigured_ExistsOnly(a, fs, ds) == PathExists(fs, ds, <<BuiltinDirectory(a)>>)

\* is_configured: agent_dir.exists() and agent_dir.is_dir().
IsConfigured(a, fs, ds) ==
    LET agent_dir == <<BuiltinDirectory(a)>>
    IN PathExists(fs, ds, agent_dir) /\ agent_dir \in ds

\* The classes validate_artifact_group is called on: the adapters, and the
\* two classes of the tests (a list of two groups, an empty list).
AgentClasses == BuiltinAgents \cup {"TestAgent", "EmptyAgent"}

\* SUPPORTED_GROUPS as the class sees it: only the tests' class declares a
\* non-empty list, every adapter has the empty list of BaseAgent.
SupportedGroups(cls) ==
    IF cls = "TestAgent" THEN <<"prompts", "modes">> ELSE <<>>

\* The groups asked about: those of the tests, and those the Copilot
\* adapter names in its SUPPORTED_TYPES.
GroupNames ==
    {"prompts", "modes", "rules", "workflows", "agents", "instructions", "chatmodes"}

\* Variant: a class that lists nothing accepts everything.
ValidateArtifactGroup_AnyWhenEmpty(cls, group) ==
    \/ SupportedGroups(cls) = <<>>
    \/ \E i \in 1..Len(SupportedGroups(cls)) : SupportedGroups(cls)[i] = group

\* validate_artifact_group: group in cls.SUPPORTED_GROUPS.
ValidateArtifactGroup(cls, group) ==
    \E i \in 1..Len(SupportedGroups(cls)) : SupportedGroups(cls)[i] = group

\* What the project root holds at each adapter's directory name.
TreeShapes == [BuiltinAgents -> {"absent", "file", "dir"}]

TreeFiles(t) ==
    [p \in {<<BuiltinDirectory(a)>> : a \in {b \in BuiltinAgents : t[b] = "file"}}
        |-> ""]

TreeDirs(t) ==
    {<<>>} \cup {<<BuiltinDirectory(a)>> : a \in {b \in BuiltinAgents : t[b] = "dir"}}

Query(query, agent, arg, answer) ==
    [query |-> query, agent |-> agent, arg |-> arg, outcome |-> "returned",
     answer |-> answer]

IsConfiguredCall(a) ==
    /\ probe' = Query("is_configured", a, "", IsConfigured(a, files, dirs))
    /\ UNCHANGED <<settings, slog, notAgents>>

ValidateGroupCall(cls, group) ==
    /\ probe' = Query("validate_artifact_group", cls, group,
                      ValidateArtifactGroup(cls, group))
    /\ UNCHANGED <<settings, slog, notAgents>>

\* Some project tree; nothing is installed and nothing else is used.
DetectInit ==
    /\ \E t \in TreeShapes : files = TreeFiles(t) /\ dirs = TreeDirs(t)
    /\ target = "test"
    /\ pc = "idle"
    /\ call = NoCall
    /\ idx = 0
    /\ results = <<>>
    /\ events = <<>>
    /\ history = <<>>
    /\ faults = 0
    /\ RegistryUnused
    /\ UpdateUnused
    /\ AgentsUnused

DetectNext ==
    \/ \E a \in BuiltinAgents : IsConfiguredCall(a)
    \/ \E cls \in AgentClasses, group \in GroupNames : ValidateGroupCall(cls, group)

DetectSpec == DetectInit /\ [][DetectNext]_allVars

----------------------------------------------------------------------------
(* Properties of the hook ordering                                         *)

EventIdx == 1..Len(events)

\* The positions of the trace holding an event of this kind.
EventsOf(kind) == {i \in EventIdx : events[i].kind = kind}

\* Resolved destination of entry k of the running call.
DestOf(k) == Resolve(DestFile(call.agent, call.pkg, call.source_files[k]))

\* The call that ran last has ended by raising.
CallRaised == pc = "idle" /\ history # <<>> /\ Last(history).outcome = "raised"

\* C1: in every install_package call, pre_install has returned before the
\* first file is copied, no file is copied once post_install has started,
\* and post_install starts only after every entry of the call was copied.
C1_InstallHookOrdering ==
    call.op = "install" =>
        /\ \A i \in EventsOf("copy") :
              /\ \E j \in 1..(i - 1) :
                    events[j].kind = "pre_install" /\ ~events[j].raised
              /\ \A j \in 1..(i - 1) : events[j].kind # "post_install"
        /\ \A i \in EventsOf("post_install") :
              \A k \in 1..Len(call.source_files) :
                 \E j \in 1..(i - 1) :
                    /\ events[j].kind = "copy" /\ ~events[j].raised
                    /\ events[j].entry = k
                    /\ DestOf(k) \in DOMAIN events[i].files

\* A two-file install has run through both hooks and both copies.
C1_Witness ==
    /\ call.op = "install" /\ pc = "idle"
    /\ Len(events) = 4
    /\ events[1].kind = "pre_install"
    /\ events[2].kind = "copy" /\ events[3].kind = "copy"
    /\ events[4].kind = "post_install" /\ ~events[4].raised

\* The package directory of the running uninstall call.
UninstallDir == call.hook_dirs.path

\* C2: in every uninstall_package call whose package directory exists,
\* pre_uninstall runs while every file of the package directory still
\* exists, the subtree is removed only after pre_uninstall has returned, and
\* post_uninstall is invoked only after the directory is gone.
C2_UninstallHookOrdering ==
    call.op = "uninstall" =>
        /\ (UninstallDir \in call.dirs_before /\ pc # "pre_uninstall") =>
              events # <<>> /\ events[1].kind = "pre_uninstall"
        /\ \A i \in EventsOf("pre_uninstall") :
              /\ events[i].files = call.files_before
              /\ events[i].dirs = call.dirs_before
              /\ call.uninstall_paths \subseteq DOMAIN events[i].files
        /\ \A i \in EventsOf("rmtree") :
              \E j \in 1..(i - 1) :
                 events[j].kind = "pre_uninstall" /\ ~events[j].raised
        /\ \A i \in EventsOf("post_uninstall") :
              /\ UninstallDir \notin events[i].dirs
              /\ \A p \in DOMAIN events[i].files : ~IsUnder(p, UninstallDir)

\* An uninstall of a directory holding files has run through both hooks.
C2_Witness ==
    /\ call.op = "uninstall" /\ pc = "idle"
    /\ call.uninstall_paths # {}
    /\ Len(events) = 3
    /\ events[1].kind = "pre_uninstall"
    /\ events[2].kind = "rmtree"
    /\ events[3].kind = "post_uninstall" /\ ~events[3].raised

\* C3: when a file copy fails during install_package, post_install is not
\* called for that call and the call ends by raising (no result list).
C3_CopyFailureSkipsPostInstall ==
    (call.op = "install" /\ \E i \in EventsOf("copy") : events[i].raised) =>
        /\ EventsOf("post_install") = {}
        /\ CallRaised
        /\ Last(history).raised_at = "copy"

\* The second copy of a call has failed after the first one succeeded.
C3_Witness ==
    /\ call.op = "install"
    /\ \E i \in EventsOf("copy") : events[i].raised /\ events[i].entry = 2
    /\ \E i \in EventsOf("copy") : ~events[i].raised /\ events[i].entry = 1

----------------------------------------------------------------------------
(* Properties of the layout: hook directories and destinations             *)

SeqToSet(q) == {q[i] : i \in 1..Len(q)}

\* The distinct package directories the entries of the running install call
\* touch, by the layout rule <agent_dir>/<group folder>/<package> per group
\* in use and <agent_dir>/<package> for entries without a group.
TouchedPackageDirs ==
    {IF e.group # NoGroup
     THEN Join(AgentDir(call.agent), <<GetGroupFolder(call.agent, e.group), call.pkg>>)
     ELSE Join(AgentDir(call.agent), <<call.pkg>>)
       : e \in SeqToSet(call.source_files)}

\* C4: the install directories handed to the install hooks are a list
\* holding exactly the distinct package directories the call touches.
C4_HookDirsAreTouchedPackageDirs ==
    call.op = "install" =>
        \A i \in EventsOf("pre_install") \cup EventsOf("post_install") :
           /\ events[i].hook_dirs.kind = "list"
           /\ SeqToSet(events[i].hook_dirs.list) = TouchedPackageDirs
           /\ Len(events[i].hook_dirs.list) = Cardinality(TouchedPackageDirs)

\* The destination the layout rule gives entry k of the running install
\* call: below the folder get_group_folder names when the entry has a group.
RuleDestOf(k) ==
    LET e == call.source_files[k]
    IN Resolve(IF e.group # NoGroup
               THEN Join(AgentDir(call.agent),
                         <<GetGroupFolder(call.agent, e.group), call.pkg>> \o e.path)
               ELSE Join(AgentDir(call.agent), <<call.pkg>> \o e.path))

\* C5: install_file writes each file to
\* <agent_dir>/<get_group_folder(group)>/<package>/<installed_path>, or to
\* <agent_dir>/<package>/<installed_path> when the entry has no group.
C5_DestUnderGroupFolder ==
    call.op = "install" =>
        \A i \in EventsOf("copy") :
           ~events[i].raised => events[i].path = RuleDestOf(events[i].entry)

\* The package directory of entry k of the running install call.
PackageDirOf(k) ==
    Resolve(PackageDir(call.agent, call.pkg, call.source_files[k].group))

\* C6: no call creates or overwrites a file outside the package directory
\* of the artifact being installed: an installed path that leaves it is
\* rejected before any write.
C6_NoWriteOutsidePackageDir ==
    call.op = "install" =>
        \A i \in EventsOf("copy") :
           \/ IsUnder(events[i].path, PackageDirOf(events[i].entry))
           \/ /\ events[i].raised
              /\ events[i].files = (IF i = 1 THEN call.files_before
                                    ELSE events[i - 1].files)

----------------------------------------------------------------------------
(* Properties of repeated and failing calls                                *)

CallIdx == 1..Len(history)

\* Call k of the history is a call `op` for package pkg that returned.
Returned(k, op, pkg) ==
    /\ history[k].op = op
    /\ history[k].pkg = pkg
    /\ history[k].outcome = "returned"

SameFs(j, k) ==
    history[j].files = history[k].files /\ history[j].dirs = history[k].dirs

\* C7: uninstall_package on a package whose directory does not exist
\* returns without error, invokes no hook and changes nothing; hence a
\* second uninstall of the same package succeeds like the first, and
\* running install then uninstall of a package twice leaves the filesystem
\* after the second run as it was after the first.
C7_UninstallIdempotent ==
    /\ (/\ call.op = "uninstall"
        /\ UninstallDir \notin call.dirs_before
        /\ UninstallDir \notin DOMAIN call.files_before) =>
           /\ pc = "idle"
           /\ Last(history).outcome = "returned"
           /\ events = <<>>
           /\ files = call.files_before
           /\ dirs = call.dirs_before
    /\ \A k \in CallIdx, pkg \in Packages :
          (k + 1 \in CallIdx /\ Returned(k, "uninstall", pkg)
             /\ history[k + 1].op = "uninstall" /\ history[k + 1].pkg = pkg) =>
                Returned(k + 1, "uninstall", pkg) /\ SameFs(k, k + 1)
    /\ \A k \in CallIdx, pkg \in Packages :
          (/\ k + 3 \in CallIdx
           /\ Returned(k, "install", pkg) /\ Returned(k + 1, "uninstall", pkg)
           /\ Returned(k + 2, "install", pkg) /\ Returned(k + 3, "uninstall", pkg)) =>
                SameFs(k + 1, k + 3)

\* A package was installed and uninstalled twice in a row, each uninstall
\* removing files.
C7_Witness ==
    /\ Len(history) = 4
    /\ Returned(1, "install", "pkg") /\ Returned(2, "uninstall", "pkg")
    /\ Returned(3, "install", "pkg") /\ Returned(4, "uninstall", "pkg")
    /\ history[2].files # history[1].files
    /\ call.uninstall_paths # {}

\* C8: installing the same package for the same agent twice with the same
\* source content yields after the second install the same destination
\* files with the same content, and the same returned checksums.
C8_InstallIdempotent ==
    \A k \in CallIdx, pkg \in Packages :
       (/\ k + 1 \in CallIdx
        /\ Returned(k, "install", pkg) /\ Returned(k + 1, "install", pkg)) =>
             /\ history[k + 1].results = history[k].results
             /\ SameFs(k, k + 1)

\* A package of two files was installed twice in a row.
C8_Witness ==
    /\ Len(history) >= 2
    /\ Returned(1, "install", "pkg") /\ Returned(2, "install", "pkg")
    /\ Len(history[2].results) = 2

\* The files an install of package pkg that never fails leaves, started on
\* the files fs: every entry's destination holds its source content.
FilesOfCompleteInstall(fs, pkg) ==
    LET sf    == Manifest(pkg)
        dests == {Resolve(DestFile(target, pkg, sf[k])) : k \in 1..Len(sf)}
    IN [q \in DOMAIN fs \cup dests |->
          IF q \in dests
          THEN SourceContent(sf[CHOOSE k \in 1..Len(sf) :
                                   Resolve(DestFile(target, pkg, sf[k])) = q].src)
          ELSE fs[q]]

\* C9: after a copy has failed part-way through install_package, every
\* file copied earlier in the call is in place with its source content, and
\* the same install_package run again without the fault completes and
\* leaves the files of an install that never failed.
C9_PartialInstallResumable ==
    /\ (call.op = "install" /\ \E i \in EventsOf("copy") : events[i].raised) =>
          \A k \in 1..idx :
             /\ DestOf(k) \in DOMAIN files
             /\ files[DestOf(k)] = SourceContent(call.source_files[k].src)
    /\ \A k \in CallIdx, pkg \in Packages :
          (/\ k + 1 \in CallIdx
           /\ history[k].op = "install" /\ history[k].pkg = pkg
           /\ history[k].raised_at = "copy"
           /\ Returned(k + 1, "install", pkg)) =>
                /\ history[k + 1].files =
                      FilesOfCompleteInstall(history[k].files_before, pkg)
                /\ Len(history[k + 1].results) = Len(Manifest(pkg))

\* The second copy of an install failed and the install was run again.
C9_Witness ==
    /\ Len(history) >= 2
    /\ history[1].op = "install" /\ history[1].pkg = "pkg"
    /\ history[1].raised_at = "copy"
    /\ Len(history[1].results) = 1
    /\ Returned(2, "install", "pkg")

\* C10: a raising hook ends the call by raising, at that point: after a
\* raising pre_install no file is copied; after a raising pre_uninstall the
\* package directory is not deleted and post_uninstall is not called; after
\* a raising post_install the copied files are still present.
C10_HookFailurePropagates ==
    /\ (\E i \in EventIdx :
           events[i].raised
           /\ events[i].kind \in {"pre_install", "post_install",
                                  "pre_uninstall", "post_uninstall"}) =>
          /\ CallRaised
          /\ Last(history).raised_at = events[Len(events)].kind
          /\ events[Len(events)].raised
    /\ (\E i \in EventsOf("pre_install") : events[i].raised) =>
          /\ EventsOf("copy") = {}
          /\ files = call.files_before /\ dirs = call.dirs_before
    /\ (\E i \in EventsOf("pre_uninstall") : events[i].raised) =>
          /\ EventsOf("rmtree") = {} /\ EventsOf("post_uninstall") = {}
          /\ files = call.files_before /\ dirs = call.dirs_before
          /\ UninstallDir \in dirs
    /\ (\E i \in EventsOf("post_install") : events[i].raised) =>
          \A k \in 1..Len(call.source_files) :
             /\ DestOf(k) \in DOMAIN files
             /\ files[DestOf(k)] = SourceContent(call.source_files[k].src)

\* pre_uninstall has raised on a package directory that holds files.
C10_Witness ==
    /\ call.op = "uninstall"
    /\ call.uninstall_paths # {}
    /\ \E i \in EventsOf("pre_uninstall") : events[i].raised

----------------------------------------------------------------------------
(* Properties of the returned checksums                                    *)

\* C11: for every file install_file has installed, the checksum it returned
\* is the checksum of what the destination file holds right after that
\* install, and that is the checksum of the source file's content.
C11_ChecksumRoundTrip ==
    call.op = "install" =>
        \A k \in 1..Len(results) :
           \E i \in EventsOf("copy") :
              /\ events[i].entry = k /\ ~events[i].raised
              /\ results[k][1] = DestFile(call.agent, call.pkg,
                                          call.source_files[k])
              /\ DestOf(k) \in DOMAIN events[i].files
              /\ results[k][2] = Checksum(events[i].files[DestOf(k)])
              /\ results[k][2] =
                    Checksum(SourceContent(call.source_files[k].src))

\* An install that a failing copy had cut short, leaving a truncated
\* destination, was run again and has returned both checksums.
C11_Witness ==
    /\ Len(history) >= 2
    /\ history[1].op = "install" /\ history[1].pkg = "pkg"
    /\ history[1].raised_at = "copy"
    /\ \E q \in DOMAIN history[1].files : history[1].files[q] = <<>>
    /\ Returned(2, "install", "pkg")
    /\ Len(results) = 2 /\ pc = "idle"

----------------------------------------------------------------------------
(* Properties of the agent registry                                        *)

LogIdx == 1..Len(rlog)

\* Call i of the log is a register call that ended with this outcome.
RegisterEnded(i, outcome) ==
    rlog[i].op = "register" /\ rlog[i].outcome = outcome

\* No clear() ended between calls i and j of the log.
NoClearBetween(i, j) ==
    \A k \in (i + 1)..(j - 1) : rlog[k].op # "clear"

\* Call i is a successful register under the case-folded name n that no
\* clear() has undone by the time call j begins.
RegisteredAt(i, j, n) ==
    /\ i < j
    /\ RegisterEnded(i, "ok")
    /\ Lower(rlog[i].agent.name) = n
    /\ NoClearBetween(i, j)

\* C12: no table holds two agents with the same case-folded name, each
\* agent is held under its case-folded name, and a register of an agent
\* whose lower-cased name is present ends in the duplicate-name error and
\* leaves under that name the agent registered first.
C12_NoDuplicateFoldedNames ==
    /\ \A o \in 1..Len(heap) :
          \A k1, k2 \in DOMAIN heap[o].agents :
             /\ Lower(heap[o].agents[k1].name) = k1
             /\ heap[o].agents[k1].id = heap[o].agents[k2].id => k1 = k2
    /\ \A j \in LogIdx :
          (/\ rlog[j].op = "register" /\ rlog[j].agent.base_agent
           /\ Lower(rlog[j].agent.name) \in DOMAIN rlog[j].before) =>
                /\ rlog[j].outcome = "ValueError"
                /\ rlog[j].after = rlog[j].before
    /\ \A i, j \in LogIdx :
          (RegisteredAt(i, j, Lower(rlog[i].agent.name))
           /\ rlog[j].op # "clear") =>
             /\ Lower(rlog[i].agent.name) \in DOMAIN rlog[j].after
             /\ rlog[j].after[Lower(rlog[i].agent.name)] = rlog[i].agent

\* "Claude" was registered, and the register of "claude" after it ended in
\* the duplicate-name error.
C12_Witness ==
    \E i, j \in LogIdx :
       /\ i < j
       /\ RegisterEnded(i, "ok") /\ rlog[i].agent.name = "Claude"
       /\ RegisterEnded(j, "ValueError") /\ rlog[j].agent.name = "claude"
       /\ rlog[j].after["claude"].id = "a1"

\* C13: register ends in the type error exactly when its argument is no
\* agent implementation; a register that ends in an error leaves the table
\* as it was; a register that succeeds adds one entry, the argument under
\* its lower-cased name, and changes no other.
C13_RegisterFailureLeavesTable ==
    \A j \in LogIdx :
       rlog[j].op = "register" =>
          /\ rlog[j].outcome = "TypeError" <=> ~rlog[j].agent.base_agent
          /\ rlog[j].outcome # "ok" => rlog[j].after = rlog[j].before
          /\ rlog[j].outcome = "ok" =>
                LET n == Lower(rlog[j].agent.name)
                IN /\ n \notin DOMAIN rlog[j].before
                   /\ DOMAIN rlog[j].after = DOMAIN rlog[j].before \cup {n}
                   /\ rlog[j].after[n] = rlog[j].agent
                   /\ \A k \in DOMAIN rlog[j].before :
                         rlog[j].after[k] = rlog[j].before[k]

\* An object that is no agent implementation was refused on a table that
\* held an agent, and a register after it succeeded.
C13_Witness ==
    \E i, j \in LogIdx :
       /\ i < j
       /\ RegisterEnded(i, "TypeError") /\ rlog[i].before # EmptyTable
       /\ RegisterEnded(j, "ok")

\* C14: of the register calls of two threads under one case-folded name
\* that no clear() separates, one succeeds and the other ends in the
\* duplicate-name error.
C14_ConcurrentRegisterSerialized ==
    \A i, j \in LogIdx :
       (/\ RegisteredAt(i, j, Lower(rlog[i].agent.name))
        /\ rlog[j].op = "register" /\ rlog[j].agent.base_agent
        /\ rlog[j].ref = rlog[i].ref
        /\ Lower(rlog[j].agent.name) = Lower(rlog[i].agent.name)) =>
             rlog[j].outcome = "ValueError"

\* C15: one registry object is ever created, every construction returns
\* it, every reference held is a reference to it, and a construction
\* returns the table as it was when the construction began.
C15_SingleRegistryInstance ==
    /\ Len(heap) <= 1
    /\ \A t \in Threads : thr[t].ref \in {0, instance}
    /\ \A j \in LogIdx :
          /\ rlog[j].ref = instance
          /\ rlog[j].op = "new" =>
                /\ rlog[j].after = rlog[j].before
                /\ \A i \in LogIdx :
                      RegisteredAt(i, j, Lower(rlog[i].agent.name)) =>
                         GetAgent(rlog[j].after, rlog[i].agent.name) =
                            rlog[i].agent

\* The registry was constructed a second time while it held an agent.
C15_Witness ==
    \E i, j \in LogIdx :
       /\ i < j
       /\ rlog[i].op = "new" /\ rlog[j].op = "new"
       /\ rlog[j].before # EmptyTable
       /\ rlog[j].ref = rlog[i].ref

\* The result get_agent(n) has when call j ends, by the calls before it.
ExpectedAgent(j, n) ==
    IF \E i \in LogIdx : RegisteredAt(i, j, Lower(n))
    THEN rlog[CHOOSE i \in LogIdx : RegisteredAt(i, j, Lower(n))].agent
    ELSE NoAgent

\* C16: get_agent never raises; it returns the agent registered under the
\* lower-cased form of the name it is given, whatever the case of the
\* name, and None when no agent is registered under it.
C16_LookupCaseInsensitive ==
    \A j \in LogIdx :
       rlog[j].op = "get_agent" =>
          /\ rlog[j].outcome = "ok"
          /\ rlog[j].result = ExpectedAgent(j, rlog[j].name)

\* get_agent("CLAUDE") has returned the agent registered as "Claude", and
\* get_agent("gemini") has returned None.
C16_Witness ==
    \E i, j \in LogIdx :
       /\ rlog[i].op = "get_agent" /\ rlog[i].name = "CLAUDE"
       /\ rlog[i].result.name = "Claude"
       /\ rlog[j].op = "get_agent" /\ rlog[j].name = "gemini"
       /\ rlog[j].result = NoAgent

----------------------------------------------------------------------------
(* Properties of the update flow                                           *)

\* The update command has been called.
UpdateCalled == ulog # <<>>

\* The version the lockfile recorded when the update was called.
InstalledBefore == ulog[1].version

\* The flow has fixed a target version.
TargetKnown == UpdateCalled /\ ustate \notin {"NoTags", "VersionNotFound"}

\* The flow has reached Installed(T).
Updated == UpdateCalled /\ ustate = "Installed"

\* Neither the lockfile nor an agent directory differs from what it was
\* when the update was called, and no step that changes them has run.
NothingChanged ==
    /\ lock = InstalledBefore
    /\ disk = [a \in UpdateAgents |-> InstalledBefore]
    /\ \A i \in DOMAIN ulog : ulog[i].kind = "fetch"

\* C17: an update that names no version takes for its target a version of
\* the fetched tags that no other fetched tag exceeds in semantic-version
\* order, and when it succeeds the lockfile records that version.
C17_LatestVersionSelected ==
    (TargetKnown /\ ureq = NoRequest) =>
        /\ utarget \in TagVersionsOf(utags)
        /\ \A w \in TagVersionsOf(utags) : ~SemverLess(utarget, w)
        /\ Updated => lock = utarget

\* An update naming no version has moved the package from 1.0.0 to 2.0.0,
\* the tag of 2.0.0 not being the one fetched last.
C17_Witness ==
    /\ Updated /\ ureq = NoRequest
    /\ InstalledBefore = <<1, 0, 0>> /\ lock = <<2, 0, 0>>
    /\ Len(utags) = MaxTags
    /\ ParseVersion(utags[Len(utags)]) # <<2, 0, 0>>

\* C18: an update that names a version takes exactly that version for its
\* target when it is among the fetched tags, whatever the highest tag, and
\* on success the lockfile records it; when it is not among the tags the
\* flow ends in version-not-found (or, without any tag, in no-tags) and
\* the lockfile and the agent directories are as they were.
C18_ExplicitVersionSelected ==
    (UpdateCalled /\ ureq # NoRequest) =>
        IF ParseVersion(ureq) \in TagVersionsOf(utags)
        THEN /\ TargetKnown
             /\ utarget = ParseVersion(ureq)
             /\ Updated => lock = ParseVersion(ureq)
        ELSE /\ ustate \in (IF utags = <<>> THEN {"NoTags", "VersionNotFound"}
                            ELSE {"VersionNotFound"})
             /\ NothingChanged

\* An update naming 1.1.0 has moved the package from 1.0.0 to 1.1.0 while
\* the source holds a tag of 2.0.0.
C18_Witness ==
    /\ Updated /\ ureq = Request(<<1, 1, 0>>)
    /\ InstalledBefore = <<1, 0, 0>> /\ lock = <<1, 1, 0>>
    /\ <<2, 0, 0>> \in TagVersionsOf(utags)

\* C19: a target version equal to the installed version ends the update in
\* up-to-date, a source without tags ends it in no-tags (or, a version
\* being named, in version-not-found); these are success outcomes that
\* leave the lockfile and every agent directory as they were.
C19_UpToDateChangesNothing ==
    /\ (TargetKnown /\ utarget = InstalledBefore) =>
          ustate \in {"ResolutionKnown", "UpToDate"}
    /\ (UpdateCalled /\ utags = <<>>) =>
          ustate \in {"NoTags", "VersionNotFound"}
    /\ ustate \in {"UpToDate", "NoTags"} =>
          /\ ExitCode(ustate) = "success"
          /\ NothingChanged

\* An update naming no version has found 2.0.0 installed and 2.0.0 the
\* highest tag.
C19_Witness ==
    /\ ustate = "UpToDate" /\ ureq = NoRequest
    /\ lock = <<2, 0, 0>> /\ Len(utags) = MaxTags

\* C20: in an update to another version, the new files of an agent are
\* installed only after its old files were uninstalled, the lockfile is
\* written only after the new files of every agent were installed, and the
\* lockfile never records the target version while an agent directory
\* holds the old version's files.
C20_ReinstallBeforeLockfile ==
    UpdateCalled =>
        /\ \A i \in DOMAIN ulog :
              ulog[i].kind \in {"install", "install_failed"} =>
                 \E j \in 1..(i - 1) :
                    /\ ulog[j].kind = "uninstall"
                    /\ ulog[j].agent = ulog[i].agent
                    /\ ulog[j].version = InstalledBefore
        /\ \A i \in DOMAIN ulog :
              ulog[i].kind = "lockfile" =>
                 \A a \in UpdateAgents :
                    \E j \in 1..(i - 1) :
                       /\ ulog[j].kind = "install"
                       /\ ulog[j].agent = a
                       /\ ulog[j].version = ulog[i].version
        /\ lock # InstalledBefore =>
              /\ lock = utarget
              /\ \A a \in UpdateAgents : disk[a] = utarget

\* Both agents were reinstalled and the lockfile was written after them.
C20_Witness ==
    /\ Updated /\ lock # InstalledBefore
    /\ ulog[Len(ulog)].kind = "lockfile"
    /\ \A a \in UpdateAgents : disk[a] = lock

----------------------------------------------------------------------------
(* Properties of the Copilot settings hooks                                *)

HookIdx == 1..Len(slog)

\* The settings file holds a JSON mapping.
WellFormed(doc) == doc.kind = "json" /\ doc.val.type = "map"

\* Every key and every location of the mapping v is in w with its value.
Preserved(v, w) ==
    \A key \in DOMAIN v.m :
       /\ key \in DOMAIN w.m
       /\ IF v.m[key].type = "map"
          THEN /\ w.m[key].type = "map"
               /\ \A path \in DOMAIN v.m[key].m :
                     /\ path \in DOMAIN w.m[key].m
                     /\ w.m[key].m[path] = v.m[key].m[path]
          ELSE w.m[key] = v.m[key]

\* C21: a hook called again with the same install directories ends as it
\* ended before and leaves the settings file as the call before left it;
\* a post_install that returns keeps every key and every location it
\* found, with the value it found.
C21_SettingsHooksIdempotent ==
    /\ \A j \in HookIdx :
          (/\ j > 1
           /\ slog[j].hook = slog[j - 1].hook
           /\ slog[j].arg = slog[j - 1].arg) =>
                /\ slog[j].outcome = slog[j - 1].outcome
                /\ slog[j].after = slog[j - 1].after
                /\ slog[j].after = slog[j].before
    /\ \A j \in HookIdx :
          (/\ slog[j].hook = "post_install"
           /\ slog[j].outcome = "returned"
           /\ WellFormed(slog[j].before)) =>
                /\ WellFormed(slog[j].after)
                /\ Preserved(slog[j].before.val, slog[j].after.val)

\* post_install has returned three times for the same two directories on a
\* settings file that held one of them disabled.
C21_Witness ==
    /\ Len(slog) = MaxHookCalls
    /\ \A j \in HookIdx :
          /\ slog[j].hook = "post_install" /\ slog[j].outcome = "returned"
          /\ slog[j].arg.kind = "list" /\ Len(slog[j].arg.dirs) = 2
    /\ WellFormed(slog[1].before)
    /\ "chat.promptFilesLocations" \in DOMAIN slog[1].before.val.m
    /\ slog[1].before.val.m["chat.promptFilesLocations"].type = "map"
    /\ slog[1].after # slog[1].before

\* C22: called with a list of directories on a settings file that is
\* absent or is no JSON, a hook returns; and whenever a hook returns, the
\* settings file is absent or holds a JSON mapping.
C22_SettingsHooksTolerant ==
    \A j \in HookIdx :
       /\ (/\ slog[j].arg.kind = "list"
           /\ slog[j].before.kind \in {"absent", "unparsable", "undecodable"})
             => slog[j].outcome = "returned"
       /\ slog[j].outcome = "returned" =>
             slog[j].after.kind = "absent" \/ WellFormed(slog[j].after)

----------------------------------------------------------------------------
(* Properties of detection and group validation                            *)

\* C23: for every adapter, is_configured returns, and answers true exactly
\* when the adapter's directory exists under the project root and is a
\* directory; it answers false when nothing or a regular file is there.
C23_ConfiguredIffDirectory ==
    probe # <<>> /\ probe.query = "is_configured" =>
        LET p == <<BuiltinDirectory(probe.agent)>>
        IN /\ probe.outcome = "returned"
           /\ probe.answer = (p \in dirs)
           /\ (p \in DOMAIN files \/ ~PathExists(files, dirs, p)) => ~probe.answer

\* A regular file sits where the adapter's directory would be, and the
\* adapter was asked.
C23_Witness ==
    /\ probe # <<>>
    /\ probe.query = "is_configured"
    /\ <<BuiltinDirectory(probe.agent)>> \in DOMAIN files
    /\ ~probe.answer

\* C24: validate_artifact_group(group) answers true exactly when group is
\* in the class's SUPPORTED_GROUPS; a class with an empty list answers false
\* for every group.
C24_ValidIffSupported ==
    probe # <<>> /\ probe.query = "validate_artifact_group" =>
        LET sg == SupportedGroups(probe.agent)
        IN /\ probe.answer = (probe.arg \in {sg[i] : i \in 1..Len(sg)})
           /\ (sg = <<>> => ~probe.answer)

\* A class with an empty list was asked about a group another class lists.
C24_Witness ==
    /\ probe # <<>>
    /\ probe.query = "validate_artifact_group"
    /\ SupportedGroups(probe.agent) = <<>>
    /\ probe.arg = "prompts"
    /\ ~probe.answer

----------------------------------------------------------------------------
(* Properties of the hook arguments and of install followed by uninstall   *)

\* The regular files below the package directory when the running uninstall
\* call began, as paths relative to the project root.
FilesBelowPackageDir ==
    {p \in DOMAIN call.files_before : IsUnder(p, UninstallDir) /\ p # UninstallDir}

\* C25: the file list given to pre_uninstall and to post_uninstall is the
\* set of regular files under the package directory at the time of the
\* call, as paths relative to the project root, and post_uninstall receives
\* the list pre_uninstall received.
C25_UninstallHookFileList ==
    call.op = "uninstall" =>
        /\ \A i \in EventsOf("pre_uninstall") \cup EventsOf("post_uninstall") :
              events[i].hook_file_set = FilesBelowPackageDir
        /\ \A i \in EventsOf("post_uninstall") :
              \E j \in 1..(i - 1) :
                 /\ events[j].kind = "pre_uninstall"
                 /\ events[j].hook_file_set = events[i].hook_file_set

\* post_uninstall has run for a package directory that held a file, while
\* the agent directory held another file outside it.
C25_Witness ==
    /\ call.op = "uninstall" /\ pc = "idle"
    /\ \E i \in EventsOf("post_uninstall") :
          /\ ~events[i].raised
          /\ events[i].hook_file_set # {}
    /\ \E p \in DOMAIN call.files_before :
          IsUnder(p, Parent(UninstallDir)) /\ ~IsUnder(p, UninstallDir)

\* C26: when post_install is reached, it receives the install directory
\* and the file list pre_install received, and entry k of that list names
\* the file the copy of entry k wrote and the path result k reports.
C26_PostInstallArguments ==
    call.op = "install" =>
        \A i \in EventsOf("post_install") :
           /\ \E j \in 1..(i - 1) :
                 /\ events[j].kind = "pre_install"
                 /\ events[j].hook_dirs = events[i].hook_dirs
                 /\ events[j].hook_files = events[i].hook_files
           /\ Len(events[i].hook_files) = Len(results)
           /\ \A k \in 1..Len(results) :
                 /\ events[i].hook_files[k] = results[k][1]
                 /\ Resolve(events[i].hook_files[k]) \in DOMAIN events[i].files
                 /\ \E j \in 1..(i - 1) :
                       /\ events[j].kind = "copy" /\ ~events[j].raised
                       /\ events[j].entry = k
                       /\ events[j].path = Resolve(events[i].hook_files[k])

\* An install of a flat and a grouped file has returned.
C26_Witness ==
    /\ call.op = "install" /\ pc = "idle"
    /\ Last(history).outcome = "returned"
    /\ Len(results) = 2
    /\ \E k \in 1..2 : call.source_files[k].group # NoGroup
    /\ \E i \in EventsOf("post_install") : ~events[i].raised

\* C28: when install_package of a package has returned and the next call,
\* uninstall_package of the same package for the same agent, has returned,
\* none of the files the install reported exists.
C28_UninstallRemovesInstalled ==
    \A k \in CallIdx, pkg \in Packages :
       (/\ k + 1 \in CallIdx
        /\ Returned(k, "install", pkg)
        /\ Returned(k + 1, "uninstall", pkg)) =>
            \A i \in 1..Len(history[k].results) :
               Resolve(history[k].results[i][1]) \notin DOMAIN history[k + 1].files

----------------------------------------------------------------------------
(* Properties of clear()                                                   *)

\* C27: after a clear() that returned, the table of its registry is empty:
\* get_agent answers None for every name, all_agents and all_names are
\* empty, and a register that follows it of an agent whose name was in the
\* table before the clear does not end in the duplicate-name error.
C27_ClearEmptiesTable ==
    \A j \in LogIdx :
       (rlog[j].op = "clear" /\ rlog[j].outcome = "ok") =>
          /\ \A n \in Names : GetAgent(rlog[j].after, n) = NoAgent
          /\ AllAgents(rlog[j].after) = {}
          /\ AllNames(rlog[j].after) = {}
          /\ (/\ j + 1 \in LogIdx
              /\ rlog[j + 1].op = "register"
              /\ rlog[j + 1].ref = rlog[j].ref
              /\ rlog[j + 1].agent.base_agent
              /\ Lower(rlog[j + 1].agent.name) \in DOMAIN rlog[j].before) =>
                 /\ rlog[j + 1].outcome = "ok"
                 /\ AllNames(rlog[j + 1].after) = {Lower(rlog[j + 1].agent.name)}

\* An agent was registered, the table cleared, and an agent of the same
\* case-folded name registered again.
C27_Witness ==
    \E j \in LogIdx :
       /\ rlog[j].op = "clear" /\ rlog[j].outcome = "ok"
       /\ rlog[j].before # EmptyTable
       /\ j + 1 \in LogIdx
       /\ RegisterEnded(j + 1, "ok")
       /\ Lower(rlog[j + 1].agent.name) \in DOMAIN rlog[j].before

----------------------------------------------------------------------------
(* Properties of packages sharing an agent directory                       *)

\* The file result i of call j of the history reports.
InstalledFile(j, i) == Resolve(history[j].results[i][1])

\* The files the install calls of package pkg before call k reported.
InstalledFor(pkg, k) ==
    UNION {{InstalledFile(j, i) : i \in 1..Len(history[j].results)} :
             j \in {c \in 1..(k - 1) :
                      history[c].op = "install" /\ history[c].pkg = pkg}}

\* C29: an uninstall_package of package P deletes only files installed for
\* P: every file an install of another package reported, which no install
\* of P reported, is in place after the uninstall if it was before.
C29_UninstallKeepsOtherPackages ==
    \A k \in CallIdx :
       history[k].op = "uninstall" =>
          \A j \in 1..(k - 1) :
             (history[j].op = "install" /\ history[j].pkg # history[k].pkg) =>
                \A i \in 1..Len(history[j].results) :
                   (/\ InstalledFile(j, i) \in DOMAIN history[k].files_before
                    /\ InstalledFile(j, i) \notin InstalledFor(history[k].pkg, k)) =>
                        InstalledFile(j, i) \in DOMAIN history[k].files

\* C30: two artifacts that differ in package name, group or installed path
\* are never installed to the same destination file.
C30_DestinationsDisjoint ==
    \A j1, j2 \in CallIdx :
       (/\ history[j1].op = "install" /\ history[j2].op = "install"
        /\ history[j1].agent = history[j2].agent) =>
           \A i1 \in 1..Len(history[j1].results), i2 \in 1..Len(history[j2].results) :
              LET e1 == Manifest(history[j1].pkg)[i1]
                  e2 == Manifest(history[j2].pkg)[i2]
              IN <<history[j1].pkg, e1.group, e1.path>>
                    # <<history[j2].pkg, e2.group, e2.path>> =>
                       InstalledFile(j1, i1) # InstalledFile(j2, i2)

----------------------------------------------------------------------------
(* Properties of the result list                                           *)

\* The position in the trace of the successful copy of entry i.
CopyOf(i) ==
    {j \in EventsOf("copy") : events[j].entry = i /\ ~events[j].raised}

\* C31: an install_package call that returned has one result per source
\* entry, in the order of the entries: result i holds the file the copy of
\* entry i wrote and the checksum of that entry's content, the copies ran in
\* the order of the entries, and path i of the list the hooks received is
\* that same file.
C31_ResultsInEntryOrder ==
    (call.op = "install" /\ pc = "idle" /\ Last(history).outcome = "returned") =>
        /\ Len(results) = Len(call.source_files)
        /\ \A i \in 1..Len(results) :
              /\ CopyOf(i) # {}
              /\ \A j \in CopyOf(i) :
                    /\ events[j].path = Resolve(results[i][1])
                    /\ \A j2 \in EventsOf("copy") :
                          events[j2].entry < i => j2 < j
              /\ results[i][2] = Checksum(SourceContent(call.source_files[i].src))
              /\ \A h \in EventsOf("pre_install") \cup EventsOf("post_install") :
                    /\ Len(events[h].hook_files) = Len(call.source_files)
                    /\ \A j \in CopyOf(i) :
                          Resolve(events[h].hook_files[i]) = events[j].path

\* An install of two entries for the adapter with its own folder names has
\* returned both results.
C31_Witness ==
    /\ call.op = "install" /\ pc = "idle"
    /\ call.agent = "custom"
    /\ Last(history).outcome = "returned"
    /\ Len(results) = 2
    /\ results[1][1] # results[2][1]

----------------------------------------------------------------------------
(* Properties of the base agent directory                                  *)

\* C32: the installer works below agent.get_directory(project_root): every
\* file a copy writes, the directory handed to every hook and the directory
\* uninstall_package removes lie under the directory get_directory returns,
\* also for an adapter that overrides it.
C32_UnderGetDirectory ==
    \A i \in EventIdx :
       /\ events[i].kind = "copy" /\ ~events[i].raised =>
             IsUnder(events[i].path, GetDirectory(call.agent))
       /\ events[i].kind \in {"pre_install", "post_install",
                              "pre_uninstall", "post_uninstall"} =>
             IsUnder(events[i].hook_dirs.path, GetDirectory(call.agent))
       /\ events[i].kind = "rmtree" =>
             IsUnder(events[i].path, GetDirectory(call.agent))

----------------------------------------------------------------------------
(* Properties of install followed by uninstall with the Copilot adapter    *)

\* The mapping a settings file stands for: the empty one when it is absent.
MappingOf(doc) == IF WellFormed(doc) THEN doc.val ELSE MapValue(<<>>)

ChatKeySet == {ChatKeys[i] : i \in 1..Len(ChatKeys)}

\* The settings file is absent, or holds a mapping whose location keys, as
\* far as present, hold mappings.
UsableSettings(doc) ==
    \/ doc.kind = "absent"
    \/ /\ WellFormed(doc)
       /\ \A key \in ChatKeySet \cap DOMAIN doc.val.m : doc.val.m[key].type = "map"

\* The locations under key of the mapping v.
Locations(v, key) ==
    IF key \in DOMAIN v.m /\ v.m[key].type = "map" THEN DOMAIN v.m[key].m ELSE {}

\* Mapping w has no location mapping v had not, and every key and entry
\* of v is in w with its value.
Restored(v, w) ==
    /\ \A key \in ChatKeySet :
          /\ Locations(w, key) \subseteq Locations(v, key)
          /\ \A path \in Locations(v, key) :
                /\ path \in Locations(w, key)
                /\ w.m[key].m[path] = v.m[key].m[path]
    /\ \A key \in DOMAIN v.m \ ChatKeySet :
          key \in DOMAIN w.m /\ w.m[key] = v.m[key]
    /\ DOMAIN w.m \subseteq DOMAIN v.m \cup ChatKeySet

\* C33: post_install for the directories of a package followed by
\* post_uninstall for the same directories, on a settings file that is
\* absent or holds a mapping: both hooks return, the locations post_install
\* added are gone, and every other key and entry is as it was.
C33_InstallUninstallRestoresSettings ==
    \A j \in HookIdx :
       (/\ j + 1 \in HookIdx
        /\ slog[j].hook = "post_install"
        /\ slog[j + 1].hook = "post_uninstall"
        /\ slog[j + 1].arg = slog[j].arg
        /\ slog[j].arg.dirs # <<>>
        /\ UsableSettings(slog[j].before)) =>
            /\ slog[j].outcome = "returned"
            /\ slog[j + 1].outcome = "returned"
            /\ Restored(MappingOf(slog[j].before), MappingOf(slog[j + 1].after))

----------------------------------------------------------------------------
(* Properties of the Copilot adapter's groups                              *)

\* C34: the Copilot adapter's validate_artifact_group answers true for the
\* groups prompts, agents, instructions and chatmodes.
C34_CopilotSupportsItsGroups ==
    (/\ probe # <<>>
     /\ probe.query = "validate_artifact_group"
     /\ probe.agent = "copilot"
     /\ probe.arg \in {"prompts", "agents", "instructions", "chatmodes"}) =>
        probe.answer

----------------------------------------------------------------------------
(* Properties of the registration at startup                               *)

\* C35: the registration block (AgentRegistry() followed by a register per
\* adapter) can run again: once an agent was registered, a register of the
\* same agent that follows a further AgentRegistry() does not raise and
\* leaves the table as it was.
C35_StartupRegistrationRepeatable ==
    \A i, j \in LogIdx :
       (/\ i < j
        /\ RegisterEnded(i, "ok")
        /\ rlog[j].op = "register"
        /\ rlog[j].agent = rlog[i].agent
        /\ rlog[j].ref = rlog[i].ref
        /\ NoClearBetween(i, j)
        /\ \E k \in (i + 1)..(j - 1) : rlog[k].op = "new") =>
            /\ rlog[j].outcome = "ok"
            /\ rlog[j].after = rlog[j].before

----------------------------------------------------------------------------
(* Properties of concurrent construction                                   *)

\* C36: all constructions of AgentRegistry, concurrent first ones included,
\* return the same object, and an agent that was registered and not cleared
\* since is in the table of the registry: the table is not replaced by an
\* empty one once a register has happened.
C36_ConcurrentConstructionSafe ==
    /\ \A i, j \in LogIdx :
          (rlog[i].op = "new" /\ rlog[j].op = "new") => rlog[i].ref = rlog[j].ref
    /\ \A i \in LogIdx :
          (/\ RegisterEnded(i, "ok")
           /\ \A k \in (i + 1)..Len(rlog) : rlog[k].op # "clear") =>
                /\ instance # 0
                /\ heap[instance].has_agents
                /\ Lower(rlog[i].agent.name) \in DOMAIN heap[instance].agents

====
